---- MODULE Spec2Model ----
(***************************************************************************)
(* State-machine model of the ClassyFire client (classyfire/classyfire.py) *)
(* : the cached, rate-limited single request _classify_inchikey, the       *)
(* wrappers classify_inchikey, and the lazy batch generator                *)
(* classify_inchikeys with its deferred-retry queue.                       *)
(*                                                                         *)
(* Strings are sequences of one-character strings.  Time is counted in     *)
(* ticks, TicksPerMs ticks per millisecond, so that a float number of      *)
(* seconds with a fractional millisecond part can be represented.          *)
(***************************************************************************)
EXTENDS Integers, Sequences, FiniteSets, TLC

\* ------------------------------------------------------------------ bounds
\* largest value drawn for the `sleep` / `sleep_between_attempts` parameters (s)
MaxSleep == 1
\* largest value drawn for `classification_attempts`
MaxAttempts == 2
\* longest input batch
MaxBatch == 2
\* largest number of rows of a table
MaxRows == 2
\* largest number of fragments a test string is put together from
MaxPieces == 3
\* longest list of nodes or descriptors in a compound
MaxList == 1
\* clock resolution: ticks per millisecond
TicksPerMs == 2
\* seconds of wall-clock time after which callers start no new call
Horizon == 2

\* ------------------------------------------------------------- utilities
Max(a, b) == IF a >= b THEN a ELSE b

Rep(c, n) == [i \in 1..n |-> c]

NEWLINE == "\n"

UPPER == {"A", "B", "C", "D", "E", "F", "G", "H", "I", "J", "K", "L", "M",
          "N", "O", "P", "Q", "R", "S", "T", "U", "V", "W", "X", "Y", "Z"}

\* the literal "InChIKey="
PREFIX == <<"I", "n", "C", "h", "I", "K", "e", "y", "=">>

\* str.replace(old, ""): left-to-right, non-overlapping removal of `old`
RECURSIVE RemoveAll(_, _, _)
RemoveAll(s, old, i) ==
    LET found == {j \in i..(Len(s) - Len(old) + 1) : SubSeq(s, j, j + Len(old) - 1) = old}
    IN  IF found = {} THEN SubSeq(s, i, Len(s))
        ELSE LET first == CHOOSE j \in found : \A k \in found : j <= k
             IN  SubSeq(s, i, first - 1) \o RemoveAll(s, old, first + Len(old))

normalize_inchikey(inchikey) == RemoveAll(inchikey, PREFIX, 1)

\* widths of the three letter groups of the pattern
Group1 == 14
Group2 == 10
Group3 == 1

\* re.match(r"^[A-Z]{14}\-[A-Z]{10}(\-[A-Z])$", s): `$` matches at the end
\* of the string and also just before a newline that ends the string
PatternLen == Group1 + 1 + Group2 + 1 + Group3

MatchesPattern(s) ==
    /\ \/ Len(s) = PatternLen
       \/ Len(s) = PatternLen + 1 /\ s[PatternLen + 1] = NEWLINE
    /\ \A i \in 1..Group1 : s[i] \in UPPER
    /\ s[Group1 + 1] = "-"
    /\ \A i \in (Group1 + 2)..(Group1 + 1 + Group2) : s[i] \in UPPER
    /\ s[Group1 + Group2 + 2] = "-"
    /\ \A i \in (Group1 + Group2 + 3)..PatternLen : s[i] \in UPPER

is_valid_inchikey(inchikey) == MatchesPattern(normalize_inchikey(inchikey))

\* ------------------------------------------------------------ identifiers
KEY_A == Rep("A", 14) \o <<"-">> \o Rep("B", 10) \o <<"-">> \o <<"N">>
KEY_B == Rep("Y", 14) \o <<"-">> \o Rep("U", 10) \o <<"-">> \o <<"N">>
\* 13 letters in the first group
KEY_BAD == Rep("A", 13) \o <<"-">> \o Rep("B", 10) \o <<"-">> \o <<"N">>

\* argument strings the callers pass to classify_inchikey
InchikeyArgs == {KEY_A, PREFIX \o KEY_A, KEY_BAD}

\* the identifiers the input batches are made of
BatchArgs == {KEY_A, KEY_B, KEY_BAD}

\* ------------------------------------------------------------------ SMILES
\* a structure the service rejects for its radicals
KEY_R == Rep("R", 14) \o <<"-">> \o Rep("A", 10) \o <<"-">> \o <<"N">>

SMILES_A == <<"C", "C", "(", "=", "O", ")", "O">>
SMILES_B == <<"C", "N", "C", "1", "C", "C", "1">>
\* "?" is no SMILES token
SMILES_BAD == <<"C", "C", "?", "1">>
SMILES_RADICAL == <<"[", "C", "]", "C", "(", "[", "C", "]", ")", "=", "[", "C", "]">>

\* argument strings the callers pass to classify_smiles
SmilesArgs == {SMILES_A, SMILES_BAD, SMILES_RADICAL}

\* rdkit: MolFromSmiles returns None for a string it cannot parse
MolFromSmiles(smiles) ==
    CASE smiles = SMILES_A -> "mol_a"
      [] smiles = SMILES_B -> "mol_b"
      [] smiles = SMILES_RADICAL -> "mol_r"
      [] OTHER -> "None"

\* rdkit: MolToInchiKey gives the key without the "InChIKey=" prefix
MolToInchiKey(mol) ==
    CASE mol = "mol_a" -> KEY_A
      [] mol = "mol_b" -> KEY_B
      [] mol = "mol_r" -> KEY_R

\* MolToInchiKey(None) raises a TypeError, which is_valid_smiles catches
is_valid_smiles(smiles) == MolFromSmiles(smiles) # "None"

convert_smiles_to_inchikey(smiles) == MolToInchiKey(MolFromSmiles(smiles))

\* variant: the key is passed on in its prefixed form
SmilesKey_Prefixed(smiles) == PREFIX \o convert_smiles_to_inchikey(smiles)

\* the argument classify_smiles passes to _classify_inchikey
SmilesKey(smiles) == convert_smiles_to_inchikey(smiles)

\* the SMILES the input lists are made of
SmilesBatchArgs == {SMILES_A, SMILES_B, SMILES_BAD}

ValidSmilesArgs ==
    {smiles \in SmilesArgs \cup SmilesBatchArgs : is_valid_smiles(smiles)}

AllArgs ==
    InchikeyArgs \cup BatchArgs
    \cup {convert_smiles_to_inchikey(smiles) : smiles \in ValidSmilesArgs}
    \cup {SmilesKey(smiles) : smiles \in ValidSmilesArgs}

\* ------------------------------------------------------- service documents
Versions == {1, 2}

NoText == <<>>

\* Python's None, also as a value in a dict (JSON null)
None == [cls |-> "NoneType"]

\* the keys of a classification document
CompoundKeys ==
    {"smiles", "inchikey", "kingdom", "superclass", "class", "subclass",
     "intermediate_nodes", "direct_parent", "alternative_parents",
     "molecular_framework", "substituents", "description",
     "external_descriptors", "ancestors", "predicted_chebi_terms",
     "predicted_lipidmaps_terms", "classification_version"}

\* a ChemOnt node as a JSON object
NodeDict(name, id) ==
    [json |-> "object", name |-> name, description |-> "about " \o name,
     chemont_id |-> id, url |-> "http://classyfire.wishartlab.com/tax_nodes/" \o id]

\* an external descriptor as a JSON object
DescriptorDict(source_id) ==
    [json |-> "object", source |-> "CHEBI", source_id |-> source_id,
     annotations |-> <<"benzoic acids">>]

\* JSON bodies: `has` is the set of keys of a JSON object
Document(key, v) ==
    [json |-> "object", has |-> CompoundKeys,
     inchikey |-> PREFIX \o key, smiles |-> <<"smiles-of">> \o key,
     kingdom |-> NodeDict("Organic compounds", "C0000000"),
     superclass |-> NodeDict("Benzenoids", "C0002448"),
     class |-> NodeDict("Benzene and substituted derivatives", "C0002279"),
     subclass |-> None,
     intermediate_nodes |-> <<>>,
     direct_parent |-> NodeDict("Acylsalicylic acids", "C0002512"),
     alternative_parents |-> <<NodeDict("Benzoic acids", "C0000381")>>,
     molecular_framework |-> "Aromatic homomonocyclic compounds",
     substituents |-> <<"Acylsalicylic acid">>,
     description |-> "This compound belongs to the class of acylsalicylic acids",
     external_descriptors |-> <<DescriptorDict("CHEBI:15365")>>,
     ancestors |-> <<"Benzenoids", "Organic compounds">>,
     predicted_chebi_terms |-> <<"benzoic acids (CHEBI:22723)">>,
     predicted_lipidmaps_terms |-> <<>>,
     classification_version |-> v]

EmptyObject ==
    [json |-> "object", has |-> {}, inchikey |-> NoText, smiles |-> NoText,
     classification_version |-> 0]

EmptyArray ==
    [json |-> "array", has |-> {}, inchikey |-> NoText, smiles |-> NoText,
     classification_version |-> 0]

\* Python truthiness of a parsed JSON body: `not response`
Falsy(body) == body.has = {}

\* a JSON object reporting an error: it has no "inchikey" key
ErrorReport ==
    [json |-> "object", has |-> {"error"}, inchikey |-> NoText, smiles |-> NoText,
     classification_version |-> 0]

\* the structures the service refuses to classify (multiple radicals or
\* attachment points)
Rejects(key) == key = KEY_R

\* how the service can tell a rejection: an error status, or an error report
Rejections ==
    {[kind |-> "http_error", body |-> EmptyObject],
     [kind |-> "ok", body |-> ErrorReport]}

\* what the remote service can answer to GET /entities/<key>.json
Answers(key) ==
    IF Rejects(key) THEN Rejections
    ELSE {[kind |-> "ok", body |-> Document(key, v)] : v \in Versions}
         \cup {[kind |-> "ok", body |-> EmptyObject],
               [kind |-> "ok", body |-> EmptyArray],
               [kind |-> "http_error", body |-> EmptyObject],
               [kind |-> "transport_error", body |-> EmptyObject]}

\* ------------------------------------------------------------ parameters
\* two client instances sharing the cache directory
Clients == {"c1", "c2"}

Policies == {"raise", "warn", "ignore", "retry-last"}

\* int(sleep_time * 1_000), the step of the progress range, time.sleep(0.1)
MsPerSecond == 1000
BarStepMs == 100
SliceMs == 100

Seconds(n) == n * MsPerSecond * TicksPerMs

\* the clock reading when the clients are constructed
StartTime == Seconds(MaxSleep + 1)

\* idle periods between calls: 899 ms and a fraction, and one second
Delays == {900 * TicksPerMs - 1, Seconds(1)}

\* --------------------------------------------------------------- exceptions
InvalidInchiKey == "InvalidInchiKey"
ClassyFireAPIRequestError == "ClassyFireAPIRequestError"
EmptyInchikeyClassification == "EmptyInchikeyClassification"
TypeCheckError == "TypeCheckError"
InvalidSMILES == "InvalidSMILES"
EmptySMILESClassification == "EmptySMILESClassification"
MultipleRadicalsOrAttachmentPointsNotSupported ==
    "MultipleRadicalsOrAttachmentPointsNotSupported"
ValueError == "ValueError"

Nothing ==
    [json |-> "none", has |-> {}, inchikey |-> NoText, smiles |-> NoText,
     classification_version |-> 0]

NoCompound == [smiles |-> NoText, inchikey |-> NoText, classification_version |-> 0]

\* -------------------------------------------------------------------- state
VARIABLES
    \* configuration of each client (ClassyFire.__init__)
    behavior_on_empty_classification, classification_attempts, sleep,
    sleep_between_attempts,
    \* rate limiter of each client
    last_request_time,
    \* wall clock
    now,
    \* classyfire_cache/: path -> stored JSON body
    cache,
    \* observation of the call that just completed: what it returned or
    \* raised and what it did
    ret,
    \* time of the last HTTP request of each client (-1: none yet)
    http_at,
    \* the generator returned by classify_inchikeys of client "c1":
    \* its argument, its position and its locals
    inchikeys, phase, pos, to_retry, new_to_retry, ridx,
    \* TRUE while the consumer is blocked in next() on the generator
    running,
    \* what the consumer has received: the compounds, and the exception
    yielded, gen_error,
    \* number of retry rounds begun, and the requests of the batch so far
    round, history,
    \* the generator function that was called ("none": no generator yet)
    method,
    \* the utility functions applied to a value: which kind of value
    \* ("none", "text", "compound" or "dict"), the string, the results of
    \* normalize_inchikey applied to it once and twice, the result of
    \* is_valid_inchikey; the Compound, the dictionary (given, or made by
    \* to_dict) and what from_dict made of the dictionary
    subject, text, normalized, valid, compound, dictionary, parsed,
    \* classify_series_list: the column of the current row the dict
    \* comprehension is at, and the mapping it has built so far
    col, mapping,
    \* the command line program: the stage of main ("none", "running" or
    \* "exited"), whether --output was given, how main ended, and what it
    \* wrote to the output file and to stdout
    cli

clientVars == <<behavior_on_empty_classification, classification_attempts, sleep,
                sleep_between_attempts>>

reqVars == <<last_request_time, now, cache, ret, http_at>>

genVars == <<inchikeys, phase, pos, to_retry, new_to_retry, ridx, running,
             yielded, gen_error, round, history>>

utilVars == <<subject, text, normalized, valid, compound, dictionary, parsed>>

tableVars == <<col, mapping>>

vars == <<clientVars, reqVars, genVars, method, utilVars, tableVars, cli>>

\* ------------------------------------------------------------- rate limiter
\* len(range(0, stop, step))
RangeLen(stop, step) == IF stop <= 0 THEN 0 ELSE (stop + step - 1) \div step

\* _sleeping_loading_bar(sleep_time, ...): ticks spent sleeping, sleep_time
\* being given in ticks
SleepingLoadingBarTicks(sleep_time) ==
    RangeLen(sleep_time \div TicksPerMs, BarStepMs) * SliceMs * TicksPerMs

\* time_to_sleep of _classify_inchikey, in ticks
TimeToSleep(c) == Max(0, Seconds(sleep[c]) - (now - last_request_time[c]))

\* -------------------------------------------------------------------- cache
\* cache_path = "{cache_dir}/{inchikey}.json" with cache_dir = "classyfire_cache"
CachePath(inchikey) == <<"classyfire_cache", "/">> \o inchikey \o <<".json">>

\* ------------------------------------------------------------------ request
\* variant: the key is put in the URL as it was passed
BuildUrlKey_Raw(inchikey) == inchikey

\* build_url: the key put in the URL {URL}/entities/{key}.json
BuildUrlKey(inchikey) == RemoveAll(inchikey, PREFIX, 1)

\* build_url: InvalidInchiKey is raised
BuildUrlRaises(inchikey) == ~ is_valid_inchikey(BuildUrlKey(inchikey))

\* build_url and the cache path of every argument string, tabulated
UrlKeyOf == [s \in AllArgs |-> BuildUrlKey(s)]

UrlRaisesOf == [s \in AllArgs |-> BuildUrlRaises(s)]

PathOf == [s \in AllArgs |-> CachePath(s)]

\* variant: every policy raises
EmptyRaises_All(policy) == TRUE

\* variant: the raising branch is entered for "raise" only
EmptyRaises_RaiseOnly(policy) == policy \in {"raise"}

\* variant: "warn" raises like "raise"
EmptyRaises_WarnToo(policy) == policy \in {"retry-last", "raise", "warn"}

\* the empty-response branch of _classify_inchikey: which policies raise
EmptyRaises(policy) == policy \in {"retry-last", "raise"}

EmptyWarns(policy) == policy \in {"warn", "retry-last"}

\* what the service answered, as the observations name it
AnswerClass(ans) ==
    IF ans.kind # "ok" THEN "failed"
    ELSE IF ans.body = ErrorReport THEN "error_report"
    ELSE IF ~ Falsy(ans.body) THEN "document"
    ELSE IF ans.body.json = "object" THEN "empty_object"
    ELSE "empty_array"

\* the body of _classify_inchikey (below the cache decorator) for client c,
\* the service answering `ans`; time already advanced by the throttle sleep
Body(c, inchikey, ans) ==
    LET policy == behavior_on_empty_classification[c] IN
    IF UrlRaisesOf[inchikey]
    THEN [kind |-> "raise", exc |-> InvalidInchiKey, value |-> Nothing,
          http |-> FALSE, warned |-> FALSE, answer |-> "none"]
    ELSE IF ans.kind \in {"http_error", "transport_error"}
    THEN [kind |-> "raise", exc |-> ClassyFireAPIRequestError, value |-> Nothing,
          http |-> TRUE, warned |-> FALSE, answer |-> AnswerClass(ans)]
    ELSE IF Falsy(ans.body) /\ EmptyRaises(policy)
    THEN [kind |-> "raise", exc |-> EmptyInchikeyClassification, value |-> Nothing,
          http |-> TRUE, warned |-> EmptyWarns(policy), answer |-> AnswerClass(ans)]
    ELSE IF ans.body.json # "object"
    \* @typechecked: the return annotation is Dict
    THEN [kind |-> "raise", exc |-> TypeCheckError, value |-> Nothing,
          http |-> TRUE, warned |-> Falsy(ans.body) /\ EmptyWarns(policy),
          answer |-> AnswerClass(ans)]
    ELSE [kind |-> "return", exc |-> "none", value |-> ans.body,
          http |-> TRUE, warned |-> Falsy(ans.body) /\ EmptyWarns(policy),
          answer |-> AnswerClass(ans)]

\* variant: the stored file is never looked up
CacheHit_Never(inchikey) == FALSE

\* the cache decorator: a stored file is loaded and returned
CacheHit(inchikey) == PathOf[inchikey] \in DOMAIN cache

\* the cache decorator: the value a normal return leaves on disk
CacheStore(inchikey, b) ==
    IF b.kind = "return"
    THEN [p \in DOMAIN cache \cup {PathOf[inchikey]} |->
             IF p = PathOf[inchikey] THEN b.value ELSE cache[p]]
    ELSE cache

\* variant: the request time is stamped before the cache is consulted
LastAfterHit_Stamped(c) == now

\* _last_request_time after a call answered by the cache decorator: the body
\* of _classify_inchikey, line 132 included, has not run
LastAfterHit(c) == last_request_time[c]

\* _classify_inchikey(inchikey) as the callers see it: outcome and effects
ClassifyRaw(c, inchikey, ans) ==
    IF CacheHit(inchikey)
    THEN [kind |-> "return", exc |-> "none", value |-> cache[PathOf[inchikey]],
          http |-> FALSE, warned |-> FALSE, answer |-> "none", hit |-> TRUE,
          remaining |-> 0, waited |-> 0,
          now |-> now, last |-> LastAfterHit(c), cache |-> cache]
    ELSE LET b == Body(c, inchikey, ans)
             waited == SleepingLoadingBarTicks(TimeToSleep(c))
         IN  [kind |-> b.kind, exc |-> b.exc, value |-> b.value,
              http |-> b.http, warned |-> b.warned, answer |-> b.answer,
              hit |-> FALSE,
              remaining |-> TimeToSleep(c), waited |-> waited,
              now |-> now + waited, last |-> now + waited,
              cache |-> CacheStore(inchikey, b)]

\* ChemontNode(**d) and ChemontNode.to_dict
ChemontNode(d) ==
    [cls |-> "ChemontNode", name |-> d.name, description |-> d.description,
     chemont_id |-> d.chemont_id, url |-> d.url]

ChemontNodeToDict(node) ==
    [json |-> "object", name |-> node.name, description |-> node.description,
     chemont_id |-> node.chemont_id, url |-> node.url]

\* ExternalDescriptor(**d) and ExternalDescriptor.to_dict
ExternalDescriptor(d) ==
    [cls |-> "ExternalDescriptor", source |-> d.source, source_id |-> d.source_id,
     annotations |-> d.annotations]

ExternalDescriptorToDict(desc) ==
    [json |-> "object", source |-> desc.source, source_id |-> desc.source_id,
     annotations |-> desc.annotations]

\* `ChemontNode(**data[k]) if data[k] is not None else None`
OptionalNode(value) == IF value # None THEN ChemontNode(value) ELSE None

\* truth value of an object: a dataclass instance is true, None is false
Truthy(obj) == obj # None

\* variant: the optional node is left out of the dictionary
OptionalToDict_Null(node) == None

\* `node.to_dict() if node else None`
OptionalToDict(node) == IF Truthy(node) THEN ChemontNodeToDict(node) ELSE None

\* variant: the presence of "smiles" is what is checked
FromDictRaises_Smiles(data) == ~ ("smiles" \in data.has)

\* Compound.from_dict: raises ValueError when the key "inchikey" is missing
FromDictRaises(data) == ~ ("inchikey" \in data.has)

\* Compound.from_dict(data) for a dictionary that has every key
FromDict(data) ==
    [smiles |-> data.smiles,
     inchikey |-> data.inchikey,
     kingdom |-> ChemontNode(data.kingdom),
     superclass |-> ChemontNode(data.superclass),
     klass |-> OptionalNode(data.class),
     subclass |-> OptionalNode(data.subclass),
     intermediate_nodes |->
         [i \in 1..Len(data.intermediate_nodes) |-> ChemontNode(data.intermediate_nodes[i])],
     direct_parent |-> ChemontNode(data.direct_parent),
     alternative_parents |->
         [i \in 1..Len(data.alternative_parents) |-> ChemontNode(data.alternative_parents[i])],
     molecular_framework |-> data.molecular_framework,
     substituents |-> data.substituents,
     description |-> data.description,
     external_descriptors |->
         [i \in 1..Len(data.external_descriptors) |->
             ExternalDescriptor(data.external_descriptors[i])],
     ancestors |-> data.ancestors,
     predicted_chebi_terms |-> data.predicted_chebi_terms,
     predicted_lipidmaps_terms |-> data.predicted_lipidmaps_terms,
     classification_version |-> data.classification_version]

\* Compound.to_dict
ToDict(self) ==
    [json |-> "object", has |-> CompoundKeys,
     smiles |-> self.smiles,
     inchikey |-> self.inchikey,
     kingdom |-> ChemontNodeToDict(self.kingdom),
     superclass |-> ChemontNodeToDict(self.superclass),
     class |-> OptionalToDict(self.klass),
     subclass |-> OptionalToDict(self.subclass),
     intermediate_nodes |->
         [i \in 1..Len(self.intermediate_nodes) |-> ChemontNodeToDict(self.intermediate_nodes[i])],
     direct_parent |-> ChemontNodeToDict(self.direct_parent),
     alternative_parents |->
         [i \in 1..Len(self.alternative_parents) |-> ChemontNodeToDict(self.alternative_parents[i])],
     molecular_framework |-> self.molecular_framework,
     substituents |-> self.substituents,
     description |-> self.description,
     external_descriptors |->
         [i \in 1..Len(self.external_descriptors) |->
             ExternalDescriptorToDict(self.external_descriptors[i])],
     ancestors |-> self.ancestors,
     predicted_chebi_terms |-> self.predicted_chebi_terms,
     predicted_lipidmaps_terms |-> self.predicted_lipidmaps_terms,
     classification_version |-> self.classification_version]

KeyError == "KeyError"

\* Compound.from_dict(data): what it returns or raises
FromDictOutcome(data) ==
    IF FromDictRaises(data)
    THEN [kind |-> "raise", exc |-> ValueError, compound |-> NoCompound]
    ELSE IF ~ (CompoundKeys \subseteq data.has)
    THEN [kind |-> "raise", exc |-> KeyError, compound |-> NoCompound]
    ELSE [kind |-> "return", exc |-> "none", compound |-> FromDict(data)]

\* the identifier named in the message of an exception that leaves
\* _classify_inchikey(inchikey): InvalidInchiKey(inchikey) of build_url is
\* given the key without its prefix, the other two the argument as passed
ExcNames(exc, inchikey) ==
    IF exc = InvalidInchiKey THEN UrlKeyOf[inchikey]
    ELSE IF exc \in {EmptyInchikeyClassification, ClassyFireAPIRequestError} THEN inchikey
    ELSE NoText

\* classify_inchikey(inchikey): Compound.from_dict(_classify_inchikey(inchikey))
ClassifyInchikeyResult(c, inchikey, ans) ==
    LET r == ClassifyRaw(c, inchikey, ans) IN
    IF r.kind = "raise"
    THEN [kind |-> "raise", exc |-> r.exc, compound |-> NoCompound, raw |-> r,
          names |-> ExcNames(r.exc, inchikey)]
    ELSE IF FromDictRaises(r.value)
    THEN [kind |-> "raise", exc |-> ValueError, compound |-> NoCompound, raw |-> r,
          names |-> NoText]
    ELSE [kind |-> "return", exc |-> "none", compound |-> FromDict(r.value), raw |-> r,
          names |-> NoText]

\* _classify_inchikey was not called
NotCalled(c) ==
    [kind |-> "none", exc |-> "none", value |-> Nothing,
     http |-> FALSE, warned |-> FALSE, answer |-> "none", hit |-> FALSE,
     remaining |-> 0, waited |-> 0,
     now |-> now, last |-> last_request_time[c], cache |-> cache]

\* variant: the exception of _classify_inchikey is left as it is
SmilesError_Same(exc) == exc

\* `except EmptyInchikeyClassification: raise EmptySMILESClassification(smiles)`
SmilesError(exc) ==
    IF exc = EmptyInchikeyClassification THEN EmptySMILESClassification ELSE exc

\* classify_smiles(smiles)
ClassifySmilesResult(c, smiles, ans) ==
    IF ~ is_valid_smiles(smiles)
    THEN [kind |-> "raise", exc |-> InvalidSMILES, compound |-> NoCompound,
          raw |-> NotCalled(c), names |-> smiles]
    ELSE LET r == ClassifyRaw(c, SmilesKey(smiles), ans) IN
         IF r.kind = "raise"
         THEN [kind |-> "raise", exc |-> SmilesError(r.exc), compound |-> NoCompound,
               raw |-> r,
               names |-> IF SmilesError(r.exc) = EmptySMILESClassification THEN smiles
                         ELSE ExcNames(r.exc, SmilesKey(smiles))]
         ELSE IF FromDictRaises(r.value)
         THEN [kind |-> "raise", exc |-> ValueError, compound |-> NoCompound, raw |-> r,
               names |-> NoText]
         ELSE [kind |-> "return", exc |-> "none", compound |-> FromDict(r.value),
               raw |-> r, names |-> NoText]

\* the observation left by a call
Observed(op, c, inchikey, res) ==
    [op |-> op, client |-> c, arg |-> inchikey,
     kind |-> res.kind, exc |-> res.exc, names |-> res.names,
     compound |-> res.compound,
     raw_kind |-> res.raw.kind, raw_exc |-> res.raw.exc, raw_value |-> res.raw.value,
     http |-> res.raw.http, answer |-> res.raw.answer,
     hit |-> res.raw.hit, warned |-> res.raw.warned,
     remaining |-> res.raw.remaining, waited |-> res.raw.waited,
     prev_http |-> http_at[c]]

NoCall ==
    [op |-> "none", client |-> "c1", arg |-> NoText,
     kind |-> "none", exc |-> "none", names |-> NoText, compound |-> NoCompound,
     raw_kind |-> "none", raw_exc |-> "none", raw_value |-> Nothing,
     http |-> FALSE, answer |-> "none", hit |-> FALSE, warned |-> FALSE,
     remaining |-> 0, waited |-> 0, prev_http |-> -1]

\* the effects of a call of client c on the shared state
Effects(op, c, inchikey, res) ==
    /\ cache' = res.raw.cache
    /\ now' = res.raw.now
    /\ last_request_time' = [last_request_time EXCEPT ![c] = res.raw.last]
    /\ http_at' = [http_at EXCEPT ![c] = IF res.raw.http THEN res.raw.now ELSE @]
    /\ ret' = Observed(op, c, inchikey, res)

\* main has not been called
NoCli == [stage |-> "none", output |-> FALSE, status |-> "none", wrote |-> "none",
          file |-> Nothing, stdout |-> Nothing]

\* the exception a generator ended with
NoError == [exc |-> "none", arg |-> NoText]

\* ---------------------------------------------------------- initial states
\* the clock bound below which callers start new calls
MaxTime == StartTime + Seconds(Horizon)

\* ClassyFire.__init__ of both clients, the parameters drawn from the given
\* sets; the cache directory starts empty and no generator exists
InitWith(policies1, policies2, attempts, sleeps, retry_sleeps) ==
    /\ behavior_on_empty_classification \in [Clients -> Policies]
    /\ behavior_on_empty_classification["c1"] \in policies1
    /\ behavior_on_empty_classification["c2"] \in policies2
    /\ \E n \in attempts : classification_attempts = [c \in Clients |-> n]
    /\ \E n \in sleeps : sleep = [c \in Clients |-> n]
    /\ \E n \in retry_sleeps : sleep_between_attempts = [c \in Clients |-> n]
    /\ last_request_time = [c \in Clients |-> 0]
    /\ now = StartTime
    /\ cache = [p \in {} |-> Nothing]
    /\ ret = NoCall
    /\ http_at = [c \in Clients |-> -1]
    /\ inchikeys = <<>>
    /\ phase = "none"
    /\ pos = 1
    /\ to_retry = <<>>
    /\ new_to_retry = <<>>
    /\ ridx = 1
    /\ running = FALSE
    /\ yielded = <<>>
    /\ gen_error = NoError
    /\ round = 0
    /\ history = <<>>
    /\ method = "none"
    /\ col = 1
    /\ mapping = <<>>
    /\ cli = NoCli

\* from_dict has not been applied
NotParsed == [kind |-> "none", exc |-> "none", compound |-> NoCompound]

\* no utility function is under test
NoUtil ==
    /\ subject = "none"
    /\ text = <<>>
    /\ normalized = <<>>
    /\ valid = <<>>
    /\ compound = NoCompound
    /\ dictionary = Nothing
    /\ parsed = NotParsed

\* ----------------------------------------------------- utility functions
\* the pieces the strings given to the utilities are put together from: the
\* prefix and its two halves, a key and its two halves, a newline, a letter
Fragments ==
    {PREFIX, SubSeq(PREFIX, 1, 5), SubSeq(PREFIX, 6, 9),
     KEY_A, SubSeq(KEY_A, 1, 7), SubSeq(KEY_A, 8, 27),
     <<NEWLINE>>, <<"A">>}

RECURSIVE Concat(_)
Concat(pieces) ==
    IF pieces = <<>> THEN <<>> ELSE Head(pieces) \o Concat(Tail(pieces))

Texts == {Concat(pieces) : pieces \in UNION {[1..n -> Fragments] : n \in 0..MaxPieces}}

\* normalize_inchikey is applied to the string, then to its own result
Normalize ==
    /\ subject = "text"
    /\ Len(normalized) < 2
    /\ normalized' = Append(normalized,
                            normalize_inchikey(IF normalized = <<>> THEN text
                                               ELSE normalized[Len(normalized)]))
    /\ UNCHANGED <<clientVars, reqVars, genVars, method, tableVars, cli, subject, text, valid,
                   compound, dictionary, parsed>>

\* is_valid_inchikey is applied to the string
Validate ==
    /\ subject = "text"
    /\ valid = <<>>
    /\ valid' = <<is_valid_inchikey(text)>>
    /\ UNCHANGED <<clientVars, reqVars, genVars, method, tableVars, cli, subject, text, normalized,
                   compound, dictionary, parsed>>

\* the nodes and descriptors the compounds are constructed from
NODE_A == ChemontNode(NodeDict("Benzenoids", "C0002448"))
NODE_B == ChemontNode(NodeDict("Benzoic acids", "C0000381"))
DESCRIPTOR_A == ExternalDescriptor(DescriptorDict("CHEBI:15365"))

NodeLists == UNION {[1..n -> {NODE_A, NODE_B}] : n \in 0..MaxList}

DescriptorLists == UNION {[1..n -> {DESCRIPTOR_A}] : n \in 0..MaxList}

\* constructed compounds: Compound(...) with klass and subclass present or
\* absent and lists of every length up to MaxList
Compounds ==
    {[FromDict(Document(KEY_A, 1)) EXCEPT
          !.klass = k, !.subclass = sc, !.intermediate_nodes = nodes,
          !.alternative_parents = parents, !.external_descriptors = descs] :
        k \in {None, NODE_A}, sc \in {None, NODE_B},
        nodes \in NodeLists, parents \in NodeLists, descs \in DescriptorLists}

\* the keys left out of the dictionaries given to from_dict
DropKeys == {"inchikey", "smiles", "class", "classification_version"}

\* dictionaries given to from_dict: documents, some keys missing
Dicts ==
    {[Document(key, v) EXCEPT !.has = @ \ dropped] :
        key \in {KEY_A, KEY_B}, v \in Versions, dropped \in SUBSET DropKeys}

\* compound.to_dict()
ToDictStep ==
    /\ subject = "compound"
    /\ dictionary = Nothing
    /\ dictionary' = ToDict(compound)
    /\ UNCHANGED <<clientVars, reqVars, genVars, method, tableVars, cli, subject, text, normalized,
                   valid, compound, parsed>>

\* Compound.from_dict(dictionary)
FromDictStep ==
    /\ subject \in {"compound", "dict"}
    /\ dictionary # Nothing
    /\ parsed = NotParsed
    /\ parsed' = FromDictOutcome(dictionary)
    /\ UNCHANGED <<clientVars, reqVars, genVars, method, tableVars, cli, subject, text, normalized,
                   valid, compound, dictionary>>

\* ----------------------------------------------------------- single calls
\* time passes between two calls
Tick ==
    /\ \E d \in Delays : now + d <= MaxTime /\ now' = now + d
    /\ ret' = NoCall
    /\ UNCHANGED <<clientVars, utilVars, tableVars, cli, method, last_request_time, cache, http_at, genVars>>

\* client c calls classify_inchikey(inchikey)
ClassifyInchikey(c, inchikey) ==
    /\ now < MaxTime
    /\ \E ans \in Answers(UrlKeyOf[inchikey]) :
       \E res \in {ClassifyInchikeyResult(c, inchikey, ans)} :
          Effects("classify_inchikey", c, inchikey, res)
    /\ UNCHANGED <<clientVars, utilVars, tableVars, cli, method, genVars>>

\* what the service can answer to the request classify_smiles would issue
SmilesAnswers(smiles) ==
    IF is_valid_smiles(smiles) THEN Answers(UrlKeyOf[SmilesKey(smiles)])
    ELSE {[kind |-> "transport_error", body |-> EmptyObject]}

\* client c calls classify_smiles(smiles)
ClassifySmiles(c, smiles) ==
    /\ now < MaxTime
    /\ \E ans \in SmilesAnswers(smiles) :
       \E res \in {ClassifySmilesResult(c, smiles, ans)} :
          Effects("classify_smiles", c, smiles, res)
    /\ UNCHANGED <<clientVars, utilVars, tableVars, cli, method, genVars>>

\* ---------------------------------------------------- classify_inchikeys
\* the client whose classify_inchikeys is called, and the batches it is given
BatchClient == "c1"

Batches == UNION {[1..n -> BatchArgs] : n \in 0..MaxBatch}

SmilesBatches == UNION {[1..n -> SmilesBatchArgs] : n \in 0..MaxBatch}

\* `self._behavior_on_empty_classification == "retry-last"`
RetryLast(c) == behavior_on_empty_classification[c] = "retry-last"

\* variant: `attempt <= self._classification_attempts`
CanRetry_Inclusive(attempt, c) == attempt <= classification_attempts[c]

\* `attempt < self._classification_attempts`
CanRetry(attempt, c) == attempt < classification_attempts[c]

\* variant: a bare `except Exception`
Retryable_Any(exc) == TRUE

\* variant: `except EmptyInchikeyClassification` in every generator
Retryable_InchikeyOnly(exc) == exc = EmptyInchikeyClassification

\* `except EmptyInchikeyClassification` around the yield of both loops of
\* classify_inchikeys, `except EmptySMILESClassification` in
\* classify_smiles_list, both of them in classify_series_list
Retryable(exc) ==
    IF method = "classify_series_list"
    THEN exc \in {EmptyInchikeyClassification, EmptySMILESClassification}
    ELSE exc = (IF method = "classify_smiles_list" THEN EmptySMILESClassification
                ELSE EmptyInchikeyClassification)

\* the entry appended to to_retry in the first pass
FirstEntry(inchikey) == <<inchikey, 1>>

\* variant: the attempt number is not incremented
NextEntry_SameAttempt(inchikey, attempt) == <<inchikey, attempt>>

\* the entry appended to new_to_retry in a retry round
NextEntry(inchikey, attempt) == <<inchikey, attempt + 1>>

\* variant: the round begins without sleeping
RetryDelay_None(c) == 0

\* `_sleeping_loading_bar(self._sleep_between_attempts, ...)` at the top of
\* the body of `while to_retry:`: ticks slept before a retry round
RetryDelay(c) == SleepingLoadingBarTicks(Seconds(sleep_between_attempts[c]))

\* variant: the entry is inserted at the head of the list
Defer_Front(queue, entry) == <<entry>> \o queue

\* variant: the entry is not kept
Defer_Drop(queue, entry) == queue

\* `to_retry.append(...)`, `new_to_retry.append(...)`
Defer(queue, entry) == Append(queue, entry)

\* variant: the generator goes on to the next item after a yield
RunningAfterYield_Eager == TRUE

\* `yield`: the generator is suspended until the consumer calls next() again
RunningAfterYield == FALSE

\* bound on the retry rounds a generator may begin
RoundCap == MaxAttempts + 2

\* the entry a request of the batch leaves in `history`
Logged(inchikey, res) ==
    [key |-> inchikey, out |-> IF res.kind = "return" THEN "ok" ELSE res.exc,
     http |-> res.raw.http,
     answer |-> IF res.raw.answer \in {"empty_object", "empty_array"}
                THEN "empty" ELSE res.raw.answer,
     round |-> round]

\* the answers of the service to the request for an item of the batch
ItemAnswers(item) ==
    IF method = "classify_smiles_list" THEN SmilesAnswers(item)
    ELSE Answers(UrlKeyOf[item])

\* `self.classify_inchikey(inchikey)` or `self.classify_smiles(smiles)`
ItemResult(item, ans) ==
    IF method = "classify_smiles_list"
    THEN ClassifySmilesResult(BatchClient, item, ans)
    ELSE ClassifyInchikeyResult(BatchClient, item, ans)

\* client c1 calls classify_smiles_list(smiles_list): the generator is
\* created, no line of its body runs yet (`inchikeys` holds the input list)
ClassifySmilesList(smiles_list) ==
    /\ phase = "none"
    /\ method' = "classify_smiles_list"
    /\ inchikeys' = smiles_list
    /\ phase' = "first"
    /\ pos' = 1
    /\ to_retry' = <<>>
    /\ ret' = NoCall
    /\ UNCHANGED <<clientVars, utilVars, tableVars, cli, last_request_time, now, cache, http_at,
                   new_to_retry, ridx, running, yielded, gen_error, round, history>>

\* client c1 calls classify_inchikeys(keys): the generator is created, no
\* line of its body runs yet
ClassifyInchikeys(keys) ==
    /\ phase = "none"
    /\ method' = "classify_inchikeys"
    /\ inchikeys' = keys
    /\ phase' = "first"
    /\ pos' = 1
    /\ to_retry' = <<>>
    /\ ret' = NoCall
    /\ UNCHANGED <<clientVars, utilVars, tableVars, cli, last_request_time, now, cache, http_at,
                   new_to_retry, ridx, running, yielded, gen_error, round, history>>

\* the consumer calls next() on the suspended generator
ConsumerNext ==
    /\ ~ running
    /\ phase \in {"first", "between", "round"}
    /\ running' = TRUE
    /\ ret' = NoCall
    /\ UNCHANGED <<clientVars, utilVars, tableVars, cli, method, last_request_time, now, cache, http_at,
                   inchikeys, phase, pos, to_retry, new_to_retry, ridx,
                   yielded, gen_error, round, history>>

\* one iteration of `for inchikey in inchikeys` (first pass)
FirstPass ==
    /\ running
    /\ method \in {"classify_inchikeys", "classify_smiles_list"}
    /\ phase = "first"
    /\ pos <= Len(inchikeys)
    /\ \E ans \in ItemAnswers(inchikeys[pos]) :
          \E inchikey \in {inchikeys[pos]} :
          \E res \in {ItemResult(inchikey, ans)} :
              /\ Effects(method, BatchClient, inchikey, res)
              /\ history' = Append(history, Logged(inchikey, res))
              /\ IF res.kind = "return"
                 THEN \* yield
                      /\ yielded' = Append(yielded, res.compound)
                      /\ running' = RunningAfterYield
                      /\ pos' = pos + 1
                      /\ UNCHANGED <<phase, to_retry, gen_error>>
                 ELSE IF Retryable(res.exc) /\ RetryLast(BatchClient)
                 THEN /\ to_retry' = Defer(to_retry, FirstEntry(inchikey))
                      /\ pos' = pos + 1
                      /\ UNCHANGED <<phase, running, yielded, gen_error>>
                 ELSE \* the exception leaves the generator
                      /\ phase' = "error"
                      /\ gen_error' = [exc |-> res.exc, arg |-> inchikey]
                      /\ running' = FALSE
                      /\ UNCHANGED <<pos, to_retry, yielded>>
    /\ UNCHANGED <<clientVars, utilVars, tableVars, cli, method, inchikeys, new_to_retry, ridx, round>>

\* the input is exhausted: `if ... == "retry-last"` after the loop
FirstPassEnd ==
    /\ running
    /\ phase = "first"
    /\ pos > Len(inchikeys)
    /\ IF RetryLast(BatchClient)
       THEN phase' = "between" /\ UNCHANGED running
       ELSE phase' = "done" /\ running' = FALSE
    /\ ret' = NoCall
    /\ UNCHANGED <<clientVars, utilVars, tableVars, cli, method, last_request_time, now, cache, http_at,
                   inchikeys, pos, to_retry, new_to_retry, ridx,
                   yielded, gen_error, round, history>>

\* `while to_retry:` is true: the retry sleep, then the round begins
RoundBegin ==
    /\ running
    /\ phase = "between"
    /\ to_retry # <<>>
    /\ round < RoundCap
    /\ now' = now + RetryDelay(BatchClient)
    /\ new_to_retry' = <<>>
    /\ ridx' = 1
    /\ phase' = "round"
    /\ round' = round + 1
    /\ ret' = NoCall
    /\ UNCHANGED <<clientVars, utilVars, tableVars, cli, method, last_request_time, cache, http_at,
                   inchikeys, pos, to_retry, running, yielded, gen_error, history>>

\* `while to_retry:` is false: the generator returns
Finish ==
    /\ running
    /\ phase = "between"
    /\ to_retry = <<>>
    /\ phase' = "done"
    /\ running' = FALSE
    /\ ret' = NoCall
    /\ UNCHANGED <<clientVars, utilVars, tableVars, cli, method, last_request_time, now, cache, http_at,
                   inchikeys, pos, to_retry, new_to_retry, ridx,
                   yielded, gen_error, round, history>>

\* one iteration of `for inchikey, attempt in to_retry` (retry round)
RetryStep ==
    /\ running
    /\ method \in {"classify_inchikeys", "classify_smiles_list"}
    /\ phase = "round"
    /\ ridx <= Len(to_retry)
    /\ \E ans \in ItemAnswers(to_retry[ridx][1]) :
          \E inchikey \in {to_retry[ridx][1]}, attempt \in {to_retry[ridx][2]} :
          \E res \in {ItemResult(inchikey, ans)} :
              /\ Effects(method, BatchClient, inchikey, res)
              /\ history' = Append(history, Logged(inchikey, res))
              /\ IF res.kind = "return"
                 THEN \* yield
                      /\ yielded' = Append(yielded, res.compound)
                      /\ running' = RunningAfterYield
                      /\ ridx' = ridx + 1
                      /\ UNCHANGED <<phase, new_to_retry, gen_error>>
                 ELSE IF Retryable(res.exc) /\ CanRetry(attempt, BatchClient)
                 THEN /\ new_to_retry' = Defer(new_to_retry, NextEntry(inchikey, attempt))
                      /\ ridx' = ridx + 1
                      /\ UNCHANGED <<phase, running, yielded, gen_error>>
                 ELSE \* the exception leaves the generator
                      /\ phase' = "error"
                      /\ gen_error' = [exc |-> res.exc, arg |-> inchikey]
                      /\ running' = FALSE
                      /\ UNCHANGED <<ridx, new_to_retry, yielded>>
    /\ UNCHANGED <<clientVars, utilVars, tableVars, cli, method, inchikeys, pos, to_retry, round>>

\* the round is over: `to_retry = new_to_retry`
RoundEnd ==
    /\ running
    /\ phase = "round"
    /\ ridx > Len(to_retry)
    /\ to_retry' = new_to_retry
    /\ phase' = "between"
    /\ ret' = NoCall
    /\ UNCHANGED <<clientVars, utilVars, tableVars, cli, method, last_request_time, now, cache, http_at,
                   inchikeys, pos, new_to_retry, ridx, running,
                   yielded, gen_error, round, history>>

\* ------------------------------------------------- classify_series_list
\* the cells of a pandas row: strings, and NaN for a missing value
StrCell(s) == [type |-> "str", value |-> s]

NAN == [type |-> "float", value |-> NoText]

\* the column names of the tables
Columns == <<"inchikey1", "smiles4">>

\* rows with two, one and no cell that holds an identifier
ROW_BOTH == <<StrCell(KEY_A), StrCell(SMILES_B)>>
ROW_KEY == <<StrCell(KEY_A), NAN>>
ROW_SMILES == <<StrCell(SMILES_BAD), StrCell(SMILES_A)>>
ROW_NONE == <<NAN, StrCell(SMILES_BAD)>>

Rows == {ROW_BOTH, ROW_KEY, ROW_SMILES, ROW_NONE}

SeriesLists == UNION {[1..n -> Rows] : n \in 0..MaxRows}

\* is_valid_inchikey and is_valid_smiles of the strings in the cells
CellTexts == {KEY_A, SMILES_A, SMILES_B, SMILES_BAD}

IsKeyOf == [s \in CellTexts |-> is_valid_inchikey(s)]

IsSmilesOf == [s \in CellTexts |-> is_valid_smiles(s)]

\* variant: every string is taken for an identifier
Eligible_AnyString(cell) == cell.type = "str"

\* the filter of the dict comprehension: `isinstance(c, str) and
\* (is_valid_inchikey(c) or is_valid_smiles(c))`
Eligible(cell) ==
    cell.type = "str" /\ (IsKeyOf[cell.value] \/ IsSmilesOf[cell.value])

\* the answers of the service to the request for an eligible cell
CellAnswers(cell) ==
    IF IsKeyOf[cell.value] THEN Answers(UrlKeyOf[cell.value])
    ELSE SmilesAnswers(cell.value)

\* `self.classify_inchikey(c) if is_valid_inchikey(c) else
\* self.classify_smiles(c)`
CellResult(cell, ans) ==
    IF IsKeyOf[cell.value] THEN ClassifyInchikeyResult(BatchClient, cell.value, ans)
    ELSE ClassifySmilesResult(BatchClient, cell.value, ans)

\* the dict under construction with one more item
MapPut(m, k, v) == [x \in DOMAIN m \cup {k} |-> IF x = k THEN v ELSE m[x]]

\* the row the generator is at, and the attempt number queued with it
CurrentRow == IF phase = "first" THEN inchikeys[pos] ELSE to_retry[ridx][1]

CurrentAttempt == IF phase = "first" THEN 0 ELSE to_retry[ridx][2]

HasRow ==
    \/ phase = "first" /\ pos <= Len(inchikeys)
    \/ phase = "round" /\ ridx <= Len(to_retry)

\* the generator moves on to the next row of the loop it is in
NextRow ==
    /\ col' = 1
    /\ mapping' = <<>>
    /\ IF phase = "first"
       THEN pos' = pos + 1 /\ ridx' = ridx
       ELSE ridx' = ridx + 1 /\ pos' = pos

\* the generator of classify_series_list is created, no line of its body
\* runs yet (`inchikeys` holds the rows)
StartSeriesList(series_list) ==
    /\ phase = "none"
    /\ method' = "classify_series_list"
    /\ inchikeys' = series_list
    /\ phase' = "first"
    /\ pos' = 1
    /\ to_retry' = <<>>
    /\ col' = 1
    /\ mapping' = <<>>
    /\ ret' = NoCall
    /\ UNCHANGED <<clientVars, utilVars, last_request_time, now, cache, http_at,
                   new_to_retry, ridx, running, yielded, gen_error, round, history>>

\* client c1 calls classify_series_list(series_list)
ClassifySeriesList(series_list) ==
    /\ StartSeriesList(series_list)
    /\ UNCHANGED cli

\* classify_csv(csv_path, sep, header): the rows of the file are handed to
\* classify_series_list one by one, as the generator asks for them
ClassifyCsv(csv_rows) == StartSeriesList(csv_rows)

\* one item of `row.items()` in the dict comprehension: a cell that does
\* not pass the filter is skipped, one that passes is classified
RowCell ==
    /\ running
    /\ method = "classify_series_list"
    /\ HasRow
    /\ col <= Len(CurrentRow)
    /\ \E cell \in {CurrentRow[col]} :
          IF ~ Eligible(cell)
          THEN /\ col' = col + 1
               /\ ret' = NoCall
               /\ UNCHANGED <<last_request_time, now, cache, http_at, mapping,
                              phase, pos, ridx, to_retry, new_to_retry, running,
                              yielded, gen_error, history>>
          ELSE \E ans \in CellAnswers(cell) :
               \E res \in {CellResult(cell, ans)} :
                  /\ Effects(method, BatchClient, cell.value, res)
                  /\ history' = Append(history, Logged(cell.value, res))
                  /\ IF res.kind = "return"
                     THEN /\ mapping' = MapPut(mapping, Columns[col], res.compound)
                          /\ col' = col + 1
                          /\ UNCHANGED <<phase, pos, ridx, to_retry, new_to_retry,
                                         running, yielded, gen_error>>
                     ELSE IF /\ Retryable(res.exc)
                             /\ IF phase = "first" THEN RetryLast(BatchClient)
                                ELSE CanRetry(CurrentAttempt, BatchClient)
                     THEN \* the row is deferred, what was built of its dict is lost
                          /\ IF phase = "first"
                             THEN /\ to_retry' = Defer(to_retry, FirstEntry(CurrentRow))
                                  /\ UNCHANGED new_to_retry
                             ELSE /\ new_to_retry' =
                                        Defer(new_to_retry,
                                              NextEntry(CurrentRow, CurrentAttempt))
                                  /\ UNCHANGED to_retry
                          /\ NextRow
                          /\ UNCHANGED <<phase, running, yielded, gen_error>>
                     ELSE \* the exception leaves the generator
                          /\ phase' = "error"
                          /\ gen_error' = [exc |-> res.exc, arg |-> cell.value]
                          /\ running' = FALSE
                          /\ UNCHANGED <<pos, ridx, to_retry, new_to_retry, yielded,
                                         col, mapping>>
    /\ UNCHANGED <<clientVars, utilVars, cli, method, inchikeys, round>>

\* the dict comprehension is complete: `yield {...}`
RowYield ==
    /\ running
    /\ method = "classify_series_list"
    /\ HasRow
    /\ col > Len(CurrentRow)
    /\ yielded' = Append(yielded, mapping)
    /\ running' = RunningAfterYield
    /\ NextRow
    /\ ret' = NoCall
    /\ UNCHANGED <<clientVars, utilVars, cli, method, last_request_time, now, cache,
                   http_at, inchikeys, phase, to_retry, new_to_retry,
                   gen_error, round, history>>

\* ----------------------------------------------------------------- main
\* `TypeError: JSONEncoder.__init__() got an unexpected keyword argument`
TypeError == "TypeError"

\* the identifiers given on the command line
CliIdentifiers == {KEY_A, SMILES_A}

\* `{column_name: compound.to_dict() for column_name, compound in
\* compounds.items()}` for every mapping that classify_csv yielded
RowResults(mappings) ==
    [i \in 1..Len(mappings) |->
        [column_name \in DOMAIN mappings[i] |-> ToDict(mappings[i][column_name])]]

\* `print(json.dumps(compounds, ident=2))`: json.dumps hands the unknown
\* keyword `ident` to JSONEncoder, which raises TypeError
PrintRaises == TRUE

\* main, given an InChIKey or a SMILES: the compound is classified and
\* written to the output file or printed
MainIdentifier(arg, output, short) ==
    /\ cli.stage = "none"
    /\ phase = "none"
    /\ \E ans \in (IF is_valid_inchikey(arg) THEN Answers(UrlKeyOf[arg])
                    ELSE SmilesAnswers(arg)) :
       \E res \in {IF is_valid_inchikey(arg)
                    THEN ClassifyInchikeyResult(BatchClient, arg, ans)
                    ELSE ClassifySmilesResult(BatchClient, arg, ans)} :
          /\ Effects("main", BatchClient, arg, res)
          /\ cli' = IF res.kind = "raise"
                    THEN [stage |-> "exited", output |-> output, status |-> res.exc,
                          wrote |-> "none", file |-> Nothing, stdout |-> Nothing]
                    ELSE IF output
                    THEN [stage |-> "exited", output |-> output, status |-> "ok",
                          wrote |-> "file",
                          file |-> ToDict(res.compound), stdout |-> Nothing]
                    ELSE [stage |-> "exited", output |-> output, status |-> "ok",
                          wrote |-> "stdout", file |-> Nothing,
                          stdout |-> IF short THEN res.compound
                                     ELSE ToDict(res.compound)]
    /\ UNCHANGED <<clientVars, utilVars, tableVars, method, genVars>>

\* main, given what is neither an identifier nor the path of a table
MainInvalid ==
    /\ cli.stage = "none"
    /\ phase = "none"
    /\ cli' = [cli EXCEPT !.stage = "exited", !.status = ValueError]
    /\ UNCHANGED <<clientVars, utilVars, tableVars, method, genVars, reqVars>>

\* main, given the path of an existing .csv, .tsv or .ssv file: the list
\* comprehension over classify_csv(...) begins
MainCsv(csv_rows, output) ==
    /\ cli.stage = "none"
    /\ ClassifyCsv(csv_rows)
    /\ cli' = [cli EXCEPT !.stage = "running", !.output = output]

\* the list comprehension is complete: the results are written to the
\* output file, or printed
MainDump ==
    /\ cli.stage = "running"
    /\ phase = "done"
    /\ cli' = IF cli.output
              THEN [cli EXCEPT !.stage = "exited", !.status = "ok", !.wrote = "file",
                               !.file = RowResults(yielded)]
              ELSE IF PrintRaises
              THEN [cli EXCEPT !.stage = "exited", !.status = TypeError]
              ELSE [cli EXCEPT !.stage = "exited", !.status = "ok", !.wrote = "stdout",
                               !.stdout = RowResults(yielded)]
    /\ UNCHANGED <<clientVars, utilVars, tableVars, method, genVars, reqVars>>

\* the exception that ended the generator leaves main
MainRaise ==
    /\ cli.stage = "running"
    /\ phase = "error"
    /\ cli' = [cli EXCEPT !.stage = "exited", !.status = gen_error.exc]
    /\ UNCHANGED <<clientVars, utilVars, tableVars, method, genVars, reqVars>>

\* ---------------------------------------------------------- specifications
\* single calls of both clients on the shared cache
Init == InitWith(Policies, Policies, {MaxAttempts}, {0}, {MaxSleep}) /\ NoUtil

Next ==
    \/ \E c \in Clients, inchikey \in InchikeyArgs : ClassifyInchikey(c, inchikey)
    \/ \E c \in Clients, smiles \in SmilesArgs : ClassifySmiles(c, smiles)

Spec == Init /\ [][Next]_vars

\* one client used sequentially, with idle time between its calls
ClockArgs == {KEY_A, KEY_BAD}

ClockInit ==
    InitWith(Policies, {"raise"}, {MaxAttempts}, 1..MaxSleep, {MaxSleep}) /\ NoUtil

ClockNext ==
    \/ Tick
    \/ \E inchikey \in ClockArgs : ClassifyInchikey("c1", inchikey)

ClockSpec == ClockInit /\ [][ClockNext]_vars

\* one batch of client c1, after at most one call of client c2 which
\* leaves what it got in the cache
Prefill ==
    /\ phase = "none"
    /\ DOMAIN cache = {}
    /\ ClassifyInchikey("c2", KEY_A)

BatchInit ==
    InitWith(Policies, {"ignore"}, 1..MaxAttempts, {MaxSleep}, {MaxSleep}) /\ NoUtil

BatchRun ==
    \/ ConsumerNext
    \/ FirstPass
    \/ FirstPassEnd
    \/ RoundBegin
    \/ Finish
    \/ RetryStep
    \/ RoundEnd

BatchNext ==
    \/ Prefill
    \/ \E keys \in Batches : ClassifyInchikeys(keys)
    \/ \E smiles_list \in SmilesBatches : ClassifySmilesList(smiles_list)
    \/ BatchRun

BatchSpec == BatchInit /\ [][BatchNext]_vars

\* the consumer keeps calling next() and the generator keeps running
BatchLiveSpec == BatchSpec /\ WF_vars(BatchRun)

\* one table of rows classified by client c1
RowInit ==
    InitWith(Policies, {"ignore"}, 1..MaxAttempts, {MaxSleep}, {MaxSleep}) /\ NoUtil

RowRun ==
    \/ ConsumerNext
    \/ RowCell
    \/ RowYield
    \/ FirstPassEnd
    \/ RoundBegin
    \/ Finish
    \/ RoundEnd

RowNext ==
    \/ \E series_list \in SeriesLists : ClassifySeriesList(series_list)
    \/ RowRun

RowSpec == RowInit /\ [][RowNext]_vars

\* one generator of client c1 over identifiers or over rows
GenNext ==
    \/ \E keys \in Batches : ClassifyInchikeys(keys)
    \/ \E series_list \in SeriesLists : ClassifySeriesList(series_list)
    \/ BatchRun
    \/ RowCell
    \/ RowYield

GenSpec == RowInit /\ [][GenNext]_vars

\* one run of the command line program, which makes its client with the
\* default policy
CliInit ==
    InitWith({"retry-last"}, {"ignore"}, {MaxAttempts}, {MaxSleep}, {MaxSleep}) /\ NoUtil

CliNext ==
    \/ \E arg \in CliIdentifiers, output \in BOOLEAN, short \in BOOLEAN :
          MainIdentifier(arg, output, short)
    \/ MainInvalid
    \/ \E csv_rows \in SeriesLists, output \in BOOLEAN : MainCsv(csv_rows, output)
    \/ RowRun
    \/ MainDump
    \/ MainRaise

CliSpec == CliInit /\ [][CliNext]_vars

\* the utility functions applied to given values; no client is used
UtilsInit ==
    /\ InitWith({"raise"}, {"raise"}, {MaxAttempts}, {MaxSleep}, {MaxSleep})
    /\ normalized = <<>>
    /\ valid = <<>>
    /\ parsed = NotParsed
    /\ \/ subject = "text" /\ text \in Texts /\ compound = NoCompound /\ dictionary = Nothing
       \/ subject = "compound" /\ text = <<>> /\ compound \in Compounds /\ dictionary = Nothing
       \/ subject = "dict" /\ text = <<>> /\ compound = NoCompound /\ dictionary \in Dicts

UtilsNext == Normalize \/ Validate \/ ToDictStep \/ FromDictStep

UtilsSpec == UtilsInit /\ [][UtilsNext]_vars

\* ------------------------------------------------------------ properties
Finished == phase \in {"done", "error"}

Started == phase \in {"first", "between", "round"}

N == Len(inchikeys)

\* item k is the only one that came back empty, and it did so on every
\* attempt; every other item returned a compound on its first attempt
OnlyItemEmpty(k) ==
    /\ Len(history) >= N
    /\ \A i \in 1..Len(history) :
          IF i <= N /\ i # k
          THEN history[i].round = 0 /\ history[i].out = "ok"
          ELSE /\ history[i].key = inchikeys[k]
               /\ history[i].answer = "empty"

\* the input position of the j-th output when item k is left out
Skipping(k, j) == IF j < k THEN j ELSE j + 1

\* C1: under retry-last, when every item but item k returns a compound on
\* its first attempt and item k comes back empty on every attempt, the
\* finished generator has yielded exactly the N-1 other compounds, in input
\* order, and has ended with EmptyInchikeyClassification for item k; it has
\* not ended normally.
C1_FailsAfterOthers ==
    \A k \in 1..N :
        (/\ method = "classify_inchikeys"
         /\ RetryLast(BatchClient) /\ Finished /\ OnlyItemEmpty(k)) =>
            /\ phase = "error"
            /\ gen_error = [exc |-> EmptyInchikeyClassification, arg |-> inchikeys[k]]
            /\ Len(yielded) = N - 1
            /\ \A j \in 1..(N - 1) :
                  yielded[j].inchikey = PREFIX \o UrlKeyOf[inchikeys[Skipping(k, j)]]

C1_Witness ==
    /\ method = "classify_inchikeys"
    /\ RetryLast(BatchClient)
    /\ phase = "error"
    /\ N = 2
    /\ OnlyItemEmpty(1)
    /\ Len(yielded) = 1
    /\ round = 2
    /\ classification_attempts[BatchClient] = 2

\* a step of the retry loop that attempts the item at ridx
IsRetryStep == phase = "round" /\ running /\ ridx <= Len(to_retry) /\ history' # history

\* C3: in a retry round under retry-last, an item that comes back empty
\* with attempt < classification_attempts is appended to the next round's
\* queue with attempt + 1 and the round goes on; one that comes back empty
\* with attempt = classification_attempts ends the generator with
\* EmptyInchikeyClassification, and once the generator has ended nothing
\* more is attempted: the items queued after it are never requested.
C3_RequeueOrAbort ==
    [][ /\ (IsRetryStep /\ ret'.exc = EmptyInchikeyClassification) =>
              LET inchikey == to_retry[ridx][1]
                  attempt == to_retry[ridx][2]
              IN  IF attempt < classification_attempts[BatchClient]
                  THEN /\ new_to_retry' = Append(new_to_retry, <<inchikey, attempt + 1>>)
                       /\ ridx' = ridx + 1
                       /\ phase' = "round"
                       /\ running'
                       /\ yielded' = yielded
                  ELSE /\ attempt = classification_attempts[BatchClient]
                       /\ phase' = "error"
                       /\ gen_error' = [exc |-> EmptyInchikeyClassification,
                                        arg |-> inchikey]
                       /\ ~ running'
        /\ (phase = "round" /\ phase' = "between") => to_retry' = new_to_retry
        /\ phase = "error" =>
              /\ UNCHANGED <<genVars>>
              /\ ret'.op # "classify_inchikeys" ]_vars

C3_Witness ==
    /\ phase = "error"
    /\ gen_error.exc = EmptyInchikeyClassification
    /\ round = 2
    /\ Len(to_retry) = 2
    /\ \A i \in 1..2 : to_retry[i][2] = 2
    /\ ridx = 1

\* number of HTTP requests the batch has issued for an identifier
Requests(key) ==
    Cardinality({i \in 1..Len(history) : history[i].key = key /\ history[i].http})

Distinct(seq) == \A i, j \in 1..Len(seq) : i # j => seq[i] # seq[j]

\* C4: under retry-last, within one batch call of distinct identifiers, no
\* identifier is requested from the service more than
\* classification_attempts times in total.
C4_AtMostAttemptsRequests ==
    (method = "classify_inchikeys" /\ RetryLast(BatchClient) /\ Distinct(inchikeys)) =>
        \A key \in BatchArgs : Requests(key) <= classification_attempts[BatchClient]

\* the number of retry rounds never exceeds classification_attempts, every
\* entry of the queue iterated in round r carries attempt = r, and every
\* entry queued for the next round carries r + 1
C5_RoundsBounded ==
    /\ round <= classification_attempts[BatchClient]
    /\ phase = "round" =>
          /\ \A i \in 1..Len(to_retry) : to_retry[i][2] = round
          /\ \A i \in 1..Len(new_to_retry) : new_to_retry[i][2] = round + 1
    /\ phase \in {"first", "between"} =>
          \A i \in 1..Len(to_retry) : to_retry[i][2] = round + 1

IsCall == ret'.op = "classify_inchikey"

\* C2: when the classification of an argument string is in the cache
\* (retrieved successfully and non-empty), a further request for it by any
\* client issues no HTTP request and returns the stored data, which is what
\* the request that retrieved it returned; stored data never change.
C2_SecondCallFromCache ==
    [][ /\ (IsCall /\ PathOf[ret'.arg] \in DOMAIN cache
                   /\ ~ Falsy(cache[PathOf[ret'.arg]])) =>
              /\ ~ ret'.http
              /\ ret'.raw_kind = "return"
              /\ ret'.raw_value = cache[PathOf[ret'.arg]]
              /\ ret'.kind = "return"
              /\ ret'.compound = FromDict(cache[PathOf[ret'.arg]])
        /\ (IsCall /\ PathOf[ret'.arg] \notin DOMAIN cache
                   /\ ret'.raw_kind = "return") =>
              /\ PathOf[ret'.arg] \in DOMAIN cache'
              /\ cache'[PathOf[ret'.arg]] = ret'.raw_value
        /\ \A p \in DOMAIN cache : p \in DOMAIN cache' /\ cache'[p] = cache[p] ]_vars

\* client c2 is answered from an entry that client c1 retrieved
C2_Witness ==
    /\ ret.op = "classify_inchikey"
    /\ ret.client = "c2"
    /\ ret.hit
    /\ ret.kind = "return"
    /\ ret.compound.classification_version = 2
    /\ http_at["c2"] = -1
    /\ http_at["c1"] >= 0

\* the service answered the observed call with an empty body
AnsweredEmpty == ret.answer \in {"empty_object", "empty_array"}

C7_NoEmptyEntry ==
    /\ \A p \in DOMAIN cache : ~ Falsy(cache[p])
    /\ (ret.op = "classify_inchikey" /\ ret.kind = "raise") =>
          (ret.hit \/ PathOf[ret.arg] \notin DOMAIN cache)

\* C8: once the classification of key K is in the cache through a request
\* for one of the forms K and "InChIKey=" + K, a request for the other form
\* issues no HTTP request.
C8_OtherFormHitsCache ==
    [][ (/\ IsCall
         /\ \E s \in InchikeyArgs :
               /\ s # ret'.arg
               /\ UrlKeyOf[s] = UrlKeyOf[ret'.arg]
               /\ PathOf[s] \in DOMAIN cache
               /\ ~ Falsy(cache[PathOf[s]])) =>
            ~ ret'.http ]_vars

\* C9: a request for a malformed InChIKey fails with InvalidInchiKey
\* without any rate-limit wait, leaves last_request_time unchanged and
\* issues no HTTP request.
C9_InvalidBeforeThrottle ==
    [][ (IsCall /\ UrlRaisesOf[ret'.arg]) =>
            /\ ret'.exc = InvalidInchiKey
            /\ ~ ret'.http
            /\ ret'.waited = 0
            /\ now' = now
            /\ last_request_time' = last_request_time ]_vars

\* C10: before each HTTP request the client has waited at least
\* max(0, sleep - (now - last_request_time)), last_request_time is the time
\* the request is issued, and two consecutive HTTP requests of a client are
\* at least `sleep` seconds apart.
C10_MinimumInterval ==
    (ret.op = "classify_inchikey" /\ ret.http) =>
        /\ last_request_time[ret.client] = http_at[ret.client]
        /\ ret.prev_http >= 0 =>
              /\ ret.waited >= ret.remaining
              /\ http_at[ret.client] - ret.prev_http >= Seconds(sleep[ret.client])

\* C11: a request answered from the cache performs no rate-limit wait, takes
\* no time, issues no HTTP request and leaves last_request_time (of every
\* client) unchanged, so that the wait of the next real request is computed
\* from the same last_request_time as if the cached request had not been made.
C11_HitBypassesLimiter ==
    [][ (IsCall /\ PathOf[ret'.arg] \in DOMAIN cache) =>
            /\ ret'.hit
            /\ ~ ret'.http
            /\ ret'.waited = 0
            /\ now' = now
            /\ last_request_time' = last_request_time
            /\ http_at' = http_at
            /\ \A c \in Clients : TimeToSleep(c)' = TimeToSleep(c) ]_vars

\* a cached answer given while the limiter would make a real request wait
C11_Witness ==
    /\ ret.op = "classify_inchikey"
    /\ ret.hit
    /\ http_at[ret.client] >= 0
    /\ now > http_at[ret.client]
    /\ TimeToSleep(ret.client) > 0

\* a step in which the generator has attempted an item
IsAttempt == history' # history

\* C12: in a batch, under every policy and in the first pass as in a retry
\* round, an attempt that fails with ClassyFireAPIRequestError or with
\* InvalidInchiKey ends the generator with that error for that item: the
\* item is not queued, nothing is yielded, and no further item is attempted.
C12_FatalNeverRetried ==
    [][ /\ (IsAttempt /\ ret'.exc \in {ClassyFireAPIRequestError, InvalidInchiKey}) =>
              /\ phase' = "error"
              /\ ~ running'
              /\ gen_error' = [exc |-> ret'.exc, arg |-> ret'.arg]
              /\ to_retry' = to_retry
              /\ new_to_retry' = new_to_retry
              /\ yielded' = yielded
        /\ phase = "error" => ~ IsAttempt ]_vars

\* a transport failure in a retry round under retry-last, with a second
\* deferred item still waiting behind the failed one
C12_Witness ==
    /\ RetryLast(BatchClient)
    /\ phase = "error"
    /\ gen_error.exc = ClassyFireAPIRequestError
    /\ round = 1
    /\ Len(to_retry) = 2
    /\ ridx = 1
    /\ Len(history) = 3

\* a step in which a client's classify_smiles call completes
IsSmilesCall == ret'.op = "classify_smiles"

\* C13: classify_smiles of a structure that the service rejects for its
\* multiple radicals or attachment points fails with
\* MultipleRadicalsOrAttachmentPointsNotSupported.
C13_RadicalsError ==
    (/\ ret.op = "classify_smiles"
     /\ is_valid_smiles(ret.arg)
     /\ Rejects(UrlKeyOf[SmilesKey(ret.arg)])) =>
        /\ ret.kind = "raise"
        /\ ret.exc = MultipleRadicalsOrAttachmentPointsNotSupported

\* C15: whenever classify_smiles(s) completes for a valid SMILES s, its
\* outcome is the outcome of classify_inchikey on the InChIKey converted
\* from s in the same state and for the same answer of the service: the same
\* compound or a failure in the same case (EmptyInchikeyClassification being
\* reported as EmptySMILESClassification), the same HTTP request or cache
\* hit, and the same cache afterwards, the entry being the one of that key.
C15_SmilesAsInchikey ==
    [][ (IsSmilesCall /\ is_valid_smiles(ret'.arg)) =>
            \E key \in {convert_smiles_to_inchikey(ret'.arg)} :
                /\ ret'.hit = (PathOf[key] \in DOMAIN cache)
                /\ ret'.kind = "return" =>
                      /\ PathOf[key] \in DOMAIN cache'
                      /\ ret'.compound = FromDict(cache'[PathOf[key]])
                /\ \E ans \in Answers(UrlKeyOf[key]) :
                   \E k \in {ClassifyInchikeyResult(ret'.client, key, ans)} :
                      /\ ret'.kind = k.kind
                      /\ ret'.compound = k.compound
                      /\ ret'.exc = SmilesError(k.exc)
                      /\ ret'.http = k.raw.http
                      /\ ret'.hit = k.raw.hit
                      /\ ret'.answer = k.raw.answer
                      /\ cache' = k.raw.cache
                      /\ now' = k.raw.now ]_vars

\* classify_smiles answered from the entry classify_inchikey left
C15_Witness ==
    /\ ret.op = "classify_smiles"
    /\ ret.arg = SMILES_A
    /\ ret.kind = "return"
    /\ ret.hit
    /\ ret.compound.classification_version = 2
    /\ DOMAIN cache = {PathOf[KEY_A]}

\* the key a completed call asked for
RequestedKey ==
    IF ret.op = "classify_smiles" THEN convert_smiles_to_inchikey(ret.arg) ELSE ret.arg

\* C16: the compound returned by classify_inchikey(K) or classify_smiles has
\* the inchikey "InChIKey=" followed by the normalized requested key, K
\* being passed with or without the prefix.
C16_PrefixedInchikey ==
    (ret.op \in {"classify_inchikey", "classify_smiles"} /\ ret.kind = "return") =>
        ret.compound.inchikey = PREFIX \o normalize_inchikey(RequestedKey)

\* a compound returned for a key passed with the prefix
C16_Witness ==
    /\ ret.op = "classify_inchikey"
    /\ ret.kind = "return"
    /\ ret.arg = PREFIX \o KEY_A
    /\ ret.compound.inchikey = PREFIX \o KEY_A

\* the key whose classification item i of the batch asks for
ItemKey(i) ==
    IF method = "classify_smiles_list" THEN convert_smiles_to_inchikey(inchikeys[i])
    ELSE inchikeys[i]

\* every attempt made so far was a first attempt and returned a compound
AllFirstAttempt ==
    \A i \in 1..Len(history) : history[i].out = "ok" /\ history[i].round = 0

\* C14: as long as every identifier classifies on its first attempt,
\* classify_inchikeys and classify_smiles_list have yielded one compound per
\* attempted input element, the i-th being the classification of the i-th
\* input and equal inputs having equal compounds; a generator that ends so
\* ends normally, having yielded exactly one compound per input element.
C14_OnePerInputInOrder ==
    (Started \/ Finished) /\ AllFirstAttempt =>
        /\ Len(yielded) = Len(history)
        /\ Len(yielded) <= N
        /\ \A i \in 1..Len(yielded) :
              /\ history[i].key = inchikeys[i]
              /\ yielded[i].inchikey = PREFIX \o normalize_inchikey(ItemKey(i))
        /\ \A i, j \in 1..Len(yielded) :
              inchikeys[i] = inchikeys[j] => yielded[i] = yielded[j]
        /\ Finished => phase = "done" /\ Len(yielded) = N

\* a list of two equal SMILES fully classified
C14_Witness ==
    /\ method = "classify_smiles_list"
    /\ phase = "done"
    /\ N = 2
    /\ inchikeys[1] = inchikeys[2]
    /\ AllFirstAttempt
    /\ Len(yielded) = 2
    /\ history[1].http /\ ~ history[2].http

StartsWith(s, p) == Len(s) >= Len(p) /\ SubSeq(s, 1, Len(p)) = p

\* s with at most one leading "InChIKey=" removed
WithoutLeadingPrefix(s) ==
    IF StartsWith(s, PREFIX) THEN SubSeq(s, Len(PREFIX) + 1, Len(s)) ELSE s

\* 14 uppercase letters, '-', 10 uppercase letters, '-', 1 uppercase letter
\* and nothing else
IsBareKey(s) ==
    /\ Len(s) = 27
    /\ \A i \in 1..27 : IF i \in {15, 26} THEN s[i] = "-" ELSE s[i] \in UPPER

\* C17: normalize_inchikey is idempotent: applied to its own result it
\* returns that result.
C17_Idempotent == Len(normalized) = 2 => normalized[2] = normalized[1]

\* C18: is_valid_inchikey(s) is true exactly when s, after removing at most
\* one leading "InChIKey=", is 14 uppercase letters, '-', 10 uppercase
\* letters, '-', 1 uppercase letter and nothing else.
C18_ValidExactly ==
    valid # <<>> => (valid[1] <=> IsBareKey(WithoutLeadingPrefix(text)))

\* C19: for every constructed Compound c, klass and subclass present or
\* absent, Compound.from_dict(c.to_dict()) returns a Compound equal to c on
\* all fields.
C19_RoundTrip ==
    (subject = "compound" /\ parsed # NotParsed) =>
        /\ parsed.kind = "return"
        /\ parsed.compound = compound

\* the round trip of a compound without klass and with a subclass
C19_Witness ==
    /\ subject = "compound"
    /\ parsed.kind = "return"
    /\ compound.klass = None
    /\ compound.subclass = NODE_B
    /\ dictionary.class = None
    /\ dictionary.subclass = ChemontNodeToDict(NODE_B)
    /\ Len(compound.intermediate_nodes) = 1

\* C20: Compound.from_dict(d) raises ValueError whenever d has no
\* "inchikey" key, whatever its other keys, and constructs no Compound.
C20_MissingInchikey ==
    (subject = "dict" /\ parsed # NotParsed /\ "inchikey" \notin dictionary.has) =>
        /\ parsed.kind = "raise"
        /\ parsed.exc = ValueError
        /\ parsed.compound = NoCompound

\* a dictionary that lacks "inchikey" and another key
C20_Witness ==
    /\ subject = "dict"
    /\ dictionary.has = CompoundKeys \ {"inchikey", "class"}
    /\ parsed.exc = ValueError

\* a step in which a retry round begins
IsRoundBegin == phase = "between" /\ phase' = "round"

\* C21: under retry-last the retry delay is slept exactly once per retry
\* round, when the round begins and before its first item: a step that
\* attempts an item advances the clock by the rate limiter's wait of that
\* request only, and no other step of the generator advances it. In the
\* first pass an item that comes back empty is appended to the deferred
\* queue with attempt 1 and the generator goes on to the next input.
C21_DelayOncePerRound ==
    [][ (phase # "none" /\ RetryLast(BatchClient)) =>
          /\ IsRoundBegin =>
                /\ now' = now + SleepingLoadingBarTicks(
                                    Seconds(sleep_between_attempts[BatchClient]))
                /\ round' = round + 1
                /\ ridx' = 1
                /\ ~ IsAttempt
          /\ IsAttempt =>
                /\ now' = now + ret'.waited
                /\ round' = round
          /\ (~ IsRoundBegin /\ ~ IsAttempt) => now' = now /\ round' = round
          /\ phase = "round" => round >= 1
          /\ (IsAttempt /\ phase = "first" /\ Retryable(ret'.exc)) =>
                /\ to_retry' = Append(to_retry, <<inchikeys[pos], 1>>)
                /\ pos' = pos + 1
                /\ phase' = "first"
                /\ running'
                /\ yielded' = yielded ]_vars

\* the first retry round has attempted both of its two items, the second
\* of them right after the first
C21_Witness ==
    /\ RetryLast(BatchClient)
    /\ phase = "round"
    /\ round = 1
    /\ Len(to_retry) = 2
    /\ ridx = 3
    /\ Len(new_to_retry) = 2
    /\ ret.waited > 0

\* the attempts of round r (0: the first pass), in the order they were made
RoundEntries(r) == SelectSeq(history, LAMBDA e : e.round = r)

\* the attempts that returned a compound, in the order they were made
OkEntries == SelectSeq(history, LAMBDA e : e.out = "ok")

\* the attempts of round r that deferred their item
DeferredIn(r) == SelectSeq(RoundEntries(r), LAMBDA e : Retryable(e.out))

Keys(entries) == [i \in 1..Len(entries) |-> entries[i].key]

IsPrefix(a, b) == Len(a) <= Len(b) /\ \A i \in 1..Len(a) : a[i] = b[i]

\* the key the service is asked for an item of the batch
KeyOfItem(item) ==
    IF method = "classify_smiles_list" THEN UrlKeyOf[SmilesKey(item)] ELSE UrlKeyOf[item]

\* C22: under retry-last, classify_inchikeys and classify_smiles_list yield
\* a compound in the very step that obtained it, so the outputs are the
\* successful attempts in the order they were made: the first pass attempts
\* the inputs in input order, round r attempts the items deferred by round
\* r - 1 in the order they were deferred, and all attempts of a round come
\* before those of the next round.
C22_YieldOrder ==
    /\ [] ((RetryLast(BatchClient) /\ phase # "none") =>
              /\ Len(yielded) = Len(OkEntries)
              /\ \A j \in 1..Len(yielded) :
                    yielded[j].inchikey = PREFIX \o KeyOfItem(OkEntries[j].key)
              /\ \A i, j \in 1..Len(history) :
                    i < j => history[i].round <= history[j].round
              /\ IsPrefix(Keys(RoundEntries(0)), inchikeys)
              /\ \A r \in 1..round :
                    IsPrefix(Keys(RoundEntries(r)), Keys(DeferredIn(r - 1)))
              /\ phase \in {"between", "round"} => Len(RoundEntries(0)) = N)
    /\ [][ (RetryLast(BatchClient) /\ phase # "none") =>
              IF IsAttempt /\ ret'.kind = "return"
              THEN yielded' = Append(yielded, ret'.compound) /\ ~ running'
              ELSE yielded' = yielded ]_vars

\* the first of two different inputs was deferred and classified in the
\* first retry round, after the second input had been yielded
C22_Witness ==
    /\ RetryLast(BatchClient)
    /\ phase = "done"
    /\ N = 2
    /\ inchikeys[1] # inchikeys[2]
    /\ Len(yielded) = 2
    /\ round = 1
    /\ yielded[1].inchikey = PREFIX \o KeyOfItem(inchikeys[2])
    /\ yielded[2].inchikey = PREFIX \o KeyOfItem(inchikeys[1])

\* C25: when the classification of the InChIKey derived from a valid SMILES
\* comes back empty under a raising policy, classify_smiles fails with
\* EmptySMILESClassification naming the SMILES it was given; under
\* retry-last classify_smiles_list then defers that SMILES, with attempt 1
\* in the first pass and with the next attempt number in a retry round
\* until the attempts are used up, and otherwise ends with that error.
\* EmptyInchikeyClassification never leaves classify_smiles nor
\* classify_smiles_list.
C25_EmptySmilesDeferred ==
    /\ [] (method = "classify_smiles_list" =>
              /\ ret.exc # EmptyInchikeyClassification
              /\ gen_error.exc # EmptyInchikeyClassification)
    /\ [][ (/\ IsAttempt
             /\ method = "classify_smiles_list"
             /\ ret'.raw_exc = EmptyInchikeyClassification) =>
              /\ ret'.exc = EmptySMILESClassification
              /\ ret'.names = ret'.arg
              /\ is_valid_smiles(ret'.arg)
              /\ yielded' = yielded
              /\ IF phase = "first"
                 THEN /\ ret'.arg = inchikeys[pos]
                      /\ IF RetryLast(BatchClient)
                         THEN /\ to_retry' = Append(to_retry, <<inchikeys[pos], 1>>)
                              /\ pos' = pos + 1
                              /\ running'
                         ELSE /\ phase' = "error"
                              /\ gen_error' = [exc |-> EmptySMILESClassification,
                                               arg |-> inchikeys[pos]]
                 ELSE /\ ret'.arg = to_retry[ridx][1]
                      /\ IF to_retry[ridx][2] < classification_attempts[BatchClient]
                         THEN /\ new_to_retry' =
                                    Append(new_to_retry,
                                           <<to_retry[ridx][1], to_retry[ridx][2] + 1>>)
                              /\ ridx' = ridx + 1
                              /\ running'
                         ELSE /\ phase' = "error"
                              /\ gen_error' = [exc |-> EmptySMILESClassification,
                                               arg |-> to_retry[ridx][1]] ]_vars

\* a SMILES that came back empty in the first pass and was classified in
\* the first retry round
C25_Witness ==
    /\ method = "classify_smiles_list"
    /\ RetryLast(BatchClient)
    /\ phase = "done"
    /\ N = 1
    /\ round = 1
    /\ Len(history) = 2
    /\ history[1].out = EmptySMILESClassification
    /\ history[2].out = "ok"
    /\ Len(yielded) = 1

\* an attempt of the batch under "ignore" that the service answered with an
\* empty value
IsIgnoredEmpty ==
    /\ IsAttempt
    /\ behavior_on_empty_classification[BatchClient] = "ignore"
    /\ ret'.answer \in {"empty_object", "empty_array"}

\* the batch ends at the item just attempted, which is neither deferred nor
\* yielded
AbortsAtItem ==
    /\ phase' = "error"
    /\ ~ running'
    /\ gen_error' = [exc |-> ret'.exc, arg |-> ret'.arg]
    /\ to_retry' = to_retry
    /\ new_to_retry' = new_to_retry
    /\ yielded' = yielded

IsIdentifierCell(cell) ==
    /\ cell.type = "str"
    /\ is_valid_inchikey(cell.value) \/ is_valid_smiles(cell.value)

\* the columns of a row whose cell holds an identifier
EligibleColumns(row) ==
    {Columns[i] : i \in {j \in 1..Len(row) : IsIdentifierCell(row[j])}}

\* a step in which a cell of the current row came back empty
IsEmptyCell ==
    /\ method = "classify_series_list"
    /\ IsAttempt
    /\ ret'.exc \in {EmptyInchikeyClassification, EmptySMILESClassification}

\* C23: in classify_series_list a row is one retry unit. When a cell of the
\* current row comes back empty nothing is yielded for the row and what was
\* built of its mapping is dropped; under retry-last the whole row is
\* queued, with attempt 1 in the first pass and with attempt + 1 in a retry
\* round while attempt < classification_attempts, and the generator ends
\* with the error otherwise. Every queue entry is a whole input row with one
\* attempt number, and every mapping that is yielded is complete.
C23_RowIsRetryUnit ==
    /\ [] (method = "classify_series_list" =>
              /\ \A i \in 1..Len(to_retry) :
                    to_retry[i][1] \in Rows /\ to_retry[i][2] \in 1..MaxAttempts
              /\ \A i \in 1..Len(new_to_retry) :
                    new_to_retry[i][1] \in Rows /\ new_to_retry[i][2] \in 1..MaxAttempts)
    /\ [][ /\ IsEmptyCell =>
                /\ yielded' = yielded
                /\ IF phase = "first" /\ RetryLast(BatchClient)
                   THEN /\ to_retry' = Append(to_retry, <<inchikeys[pos], 1>>)
                        /\ pos' = pos + 1
                        /\ mapping' = <<>> /\ col' = 1
                        /\ running' /\ phase' = phase
                   ELSE IF /\ phase = "round"
                           /\ to_retry[ridx][2] < classification_attempts[BatchClient]
                   THEN /\ new_to_retry' =
                              Append(new_to_retry,
                                     <<to_retry[ridx][1], to_retry[ridx][2] + 1>>)
                        /\ ridx' = ridx + 1
                        /\ mapping' = <<>> /\ col' = 1
                        /\ running' /\ phase' = phase
                   ELSE /\ phase' = "error"
                        /\ gen_error'.exc = ret'.exc
                        /\ ~ running'
           /\ (method = "classify_series_list" /\ yielded' # yielded) =>
                /\ yielded' = Append(yielded, mapping)
                /\ DOMAIN mapping = EligibleColumns(CurrentRow)
                /\ ~ IsAttempt ]_vars

\* the second cell of a row came back empty after the first had been
\* classified; the row was retried as a whole and its mapping yielded
C23_Witness ==
    /\ method = "classify_series_list"
    /\ RetryLast(BatchClient)
    /\ phase = "done"
    /\ inchikeys = <<ROW_BOTH>>
    /\ round = 1
    /\ Len(history) = 4
    /\ history[1].out = "ok"
    /\ history[2].out = EmptySMILESClassification
    /\ ~ history[3].http
    /\ Len(yielded) = 1
    /\ DOMAIN yielded[1] = {Columns[1], Columns[2]}

\* the key the service is asked for the identifier in a cell
KeyOfCell(cell) ==
    IF is_valid_inchikey(cell.value) THEN normalize_inchikey(cell.value)
    ELSE convert_smiles_to_inchikey(cell.value)

\* the generator is at a cell of the current row
AtCell ==
    /\ method = "classify_series_list"
    /\ running
    /\ HasRow
    /\ col <= Len(CurrentRow)

\* C24: the mapping classify_series_list yields for a row has exactly the
\* columns whose cell is a string that is a valid InChIKey or a valid
\* SMILES, each mapped to the compound of that cell's key; a cell that is
\* not a string or not a valid identifier is passed over without a request,
\* without an error and without a change of the mapping, and only a cell
\* that holds an identifier is requested.
C24_ExactlyIdentifierColumns ==
    [][ /\ (method = "classify_series_list" /\ yielded' # yielded) =>
              \E m \in {yielded'[Len(yielded')]} :
                 /\ DOMAIN m = EligibleColumns(CurrentRow)
                 /\ \A i \in 1..Len(CurrentRow) :
                       IsIdentifierCell(CurrentRow[i]) =>
                          m[Columns[i]].inchikey = PREFIX \o KeyOfCell(CurrentRow[i])
        /\ (AtCell /\ ~ IsIdentifierCell(CurrentRow[col])) =>
              /\ col' = col + 1
              /\ UNCHANGED <<mapping, now, cache, http_at, last_request_time, history,
                             phase, gen_error, yielded, to_retry, new_to_retry>>
        /\ (AtCell /\ IsAttempt) =>
              /\ IsIdentifierCell(CurrentRow[col])
              /\ ret'.arg = CurrentRow[col].value ]_vars

\* a table of two rows with four cells, one of which holds an identifier:
\* one request was made, and the second mapping is empty
C24_Witness ==
    /\ method = "classify_series_list"
    /\ phase = "done"
    /\ inchikeys = <<ROW_SMILES, ROW_NONE>>
    /\ Len(history) = 1
    /\ Len(yielded) = 2
    /\ DOMAIN yielded[1] = {Columns[2]}
    /\ yielded[1][Columns[2]].inchikey = PREFIX \o KEY_A
    /\ DOMAIN yielded[2] = {}

\* C26: the generators are lazy. The call that creates one reads no input
\* item and makes no request; while the generator is suspended (before the
\* first next(), after a yield, or for good when the consumer stops) no
\* step reads an item, makes a request, sleeps or queues anything: the only
\* thing that can happen is the consumer's next(); and every yield suspends
\* the generator.
C26_Lazy ==
    [][ /\ (phase = "none" /\ phase' # "none") =>
              /\ phase' = "first" /\ pos' = 1 /\ ~ running'
              /\ UNCHANGED <<now, cache, http_at, last_request_time, history, yielded>>
        /\ (phase # "none" /\ ~ running) =>
              /\ UNCHANGED <<now, cache, http_at, last_request_time, history,
                             inchikeys, phase, pos, to_retry, new_to_retry, ridx,
                             yielded, gen_error, round, col, mapping>>
              /\ ~ Finished
              /\ running'
        /\ yielded' # yielded => running /\ ~ running'
        /\ (IsAttempt \/ IsRoundBegin) => running ]_vars

\* the consumer has taken the first of two results and has not asked for
\* the second: one item was read and requested
C26_Witness ==
    /\ phase = "first"
    /\ ~ running
    /\ N = 2
    /\ pos = 2
    /\ Len(yielded) = 1
    /\ Len(history) = 1
    /\ http_at[BatchClient] >= 0

\* what identifies the result of an input item: the key of the compound,
\* for a row the keys of the compounds by column (a string that is no
\* SMILES has no result and stands for itself)
RowSignature ==
    [row \in Rows |->
        {<<Columns[i], PREFIX \o KeyOfCell(row[i])>> :
            i \in {j \in 1..Len(row) : IsIdentifierCell(row[j])}}]

Signature(item) ==
    IF method = "classify_series_list" THEN RowSignature[item]
    ELSE IF method = "classify_smiles_list" /\ ~ is_valid_smiles(item)
    THEN item
    ELSE PREFIX \o KeyOfItem(item)

SignatureOfResult(y) ==
    IF method = "classify_series_list"
    THEN {<<column, y[column].inchikey>> : column \in DOMAIN y}
    ELSE y.inchikey

\* the items the generator still has to attempt, or to attempt again
Waiting ==
    CASE phase = "first" ->
            [i \in 1..(N + 1 - pos) |-> inchikeys[pos + i - 1]]
            \o [i \in 1..Len(to_retry) |-> to_retry[i][1]]
      [] phase = "between" -> [i \in 1..Len(to_retry) |-> to_retry[i][1]]
      [] phase = "round" ->
            [i \in 1..(Len(to_retry) + 1 - ridx) |-> to_retry[ridx + i - 1][1]]
            \o [i \in 1..Len(new_to_retry) |-> new_to_retry[i][1]]
      [] OTHER -> <<>>

\* how many elements of a sequence of items, of results, have a signature
CountItems(items, sig) ==
    Cardinality({i \in 1..Len(items) : Signature(items[i]) = sig})

CountResults(results, sig) ==
    Cardinality({i \in 1..Len(results) : SignatureOfResult(results[i]) = sig})

\* C28: under retry-last, at every moment of a batch the results yielded
\* and the items still waiting (unread input and deferred queues) together
\* are the input items, each as often as it occurs in the input: no item is
\* yielded twice, none is both yielded and waiting, none is lost. A
\* generator that failed has yielded no item more often than the input has
\* it, and one that finished normally has yielded every input item exactly
\* once, with nothing left waiting.
C28_EachItemOnce ==
    (RetryLast(BatchClient) /\ phase # "none") =>
        /\ \A k \in 1..N :
              \E sig \in {Signature(inchikeys[k])} :
                 IF phase = "error"
                 THEN CountResults(yielded, sig) + CountItems(Waiting, sig)
                         <= CountItems(inchikeys, sig)
                 ELSE CountResults(yielded, sig) + CountItems(Waiting, sig)
                         = CountItems(inchikeys, sig)
        /\ Len(yielded) + Len(Waiting) <= N
        /\ phase = "done" => Len(yielded) = N /\ to_retry = <<>>

\* a finished batch of two different items, one of which came back empty
\* in the first pass and in the first round and was classified in the
\* last round allowed
C28_Witness ==
    /\ RetryLast(BatchClient)
    /\ phase = "done"
    /\ N = 2
    /\ inchikeys[1] # inchikeys[2]
    /\ Len(yielded) = 2
    /\ round = 2
    /\ classification_attempts[BatchClient] = 2
    /\ Len(RoundEntries(2)) = 1

\* every row of the file has been classified and the comprehension is
\* complete
AllRowsClassified == phase = "done" /\ Len(yielded) = N

\* C27: main, given the path of an existing table whose rows all classify,
\* ends successfully having put the row results, in the order of the rows,
\* into the output file when --output is given and on stdout when it is
\* not.
C27_CsvOutput ==
    (cli.stage = "exited" /\ method = "classify_series_list" /\ AllRowsClassified) =>
        /\ cli.status = "ok"
        /\ IF cli.output
           THEN cli.wrote = "file" /\ cli.file = RowResults(yielded)
           ELSE cli.wrote = "stdout" /\ cli.stdout = RowResults(yielded)
====
